---- MODULE Spec2Model ----
(***************************************************************************)
(* A model of the rclone chunk runner: the configuration loader            *)
(* (modules/config_handler.py), the chunk runner (modules/rclone_exec.py)  *)
(* and the entry point that drives them (chunk_rclone.py main).            *)
(*                                                                         *)
(* chunk_rclone.py also holds an earlier single-file copy of the loader and *)
(* the runner (load_config, run_rclone_chunk); the copies in modules/ are   *)
(* the ones modelled.  The parsing of the command line (control file path, *)
(* --dry-run) is not in the sources and follows the specification.         *)
(*                                                                         *)
(* Spec runs the whole program over a family of configuration files;       *)
(* SpecMerge runs the loader over files built to exercise the merge;       *)
(* SpecPaths runs the program over every short destination path string.    *)
(* Keyboard interrupts are taken where the program blocks: in the two      *)
(* waits on a child process.  The waits are subprocess.run's: on a timeout *)
(* it kills the child and waits for its end; on a keyboard interrupt it    *)
(* waits a quarter of a second, kills the child and does not wait again.   *)
(*                                                                         *)
(* Strings are sequences of tokens: "/" and "." are the tokens the path    *)
(* join looks at, every other token is an opaque run of characters that    *)
(* holds no separator.  Python values are records [t |-> type, v |-> ...]. *)
(***************************************************************************)
EXTENDS Integers, Sequences, FiniteSets, TLC

VARIABLES
    pc,               \* position of the (single-threaded) program
    argv_cli,         \* command line: [control_file_arg, dry_run]
    fs,               \* the files the loader looks at
    effective_config, \* config_handler: effective_config (the merged tree)
    final_settings,   \* config_handler: final_settings / rclone_exec: effective_cfg
    rclone_command,   \* rclone_exec: rclone_command (argument list of the main transfer)
    log_file_name,    \* rclone_exec: log_file_path.name
    exit_code,        \* rclone_exec: exit_code (recorded outcome of the main transfer)
    main_outcome,     \* how the main transfer ended
    upload_outcome,   \* how the log upload ended
    launched,         \* every child process started so far, in order
    alive,            \* the child processes running now
    signalled,        \* the signals the program has sent to its children
    full_source_rclone_path,      \* rclone_exec: the composed source location
    full_destination_rclone_path, \* rclone_exec: the composed destination location
    out,              \* the messages printed so far
    run_status,       \* the value run_rclone_chunk returned
    returned,         \* whether run_rclone_chunk has returned
    process_exit      \* exit code of the process once it has ended

vars == <<pc, argv_cli, fs, effective_config, final_settings, rclone_command,
          log_file_name, exit_code, main_outcome, upload_outcome, launched,
          alive, signalled, full_source_rclone_path, full_destination_rclone_path,
          out, run_status, returned, process_exit>>

----------------------------------------------------------------------------
(* Bounds of the model *)

\* longest path string (in tokens) tried by the path composition check
MaxPathLen == 2

----------------------------------------------------------------------------
(* Python values as the TOML parser and dict.get produce them *)

PyNone == [t |-> "none", v |-> 0]

PyStr(s) == [t |-> "str", v |-> s]

PyInt(n) == [t |-> "int", v |-> n]

\* a float holding n/2 (PyFloat(3) is 1.5, PyFloat(120) is 60.0)
PyFloat(n) == [t |-> "float", v |-> n]

PyBool(b) == [t |-> "bool", v |-> b]

PyList(l) == [t |-> "list", v |-> l]

PyDict(d) == [t |-> "dict", v |-> d]

EmptyDict == << >>

\* isinstance(x, dict)
IsDict(x) == x.t = "dict"

\* isinstance(x, int): bool is a subclass of int
IsInstanceInt(x) == x.t \in {"int", "bool"}

\* the integer an int-like value compares as (True is 1, False is 0)
IntValue(x) == IF x.t = "bool" THEN (IF x.v THEN 1 ELSE 0) ELSE x.v

\* bool(x)
Truthy(x) ==
    CASE x.t = "none" -> FALSE
      [] x.t = "str" -> x.v # << >>
      [] x.t = "int" -> x.v # 0
      [] x.t = "float" -> x.v # 0
      [] x.t = "bool" -> x.v
      [] x.t = "list" -> x.v # << >>
      [] x.t = "dict" -> DOMAIN x.v # {}

\* d.get(k, default)
Get(d, k, default) == IF k \in DOMAIN d THEN d[k] ELSE default

\* d[k] = val
Put(d, k, val) == [x \in DOMAIN d \cup {k} |-> IF x = k THEN val ELSE d[x]]

\* d.update(c)
Update(d, c) == [x \in DOMAIN d \cup DOMAIN c |-> IF x \in DOMAIN c THEN c[x] ELSE d[x]]

----------------------------------------------------------------------------
(* config_handler: the merge of the control tree over the base tree *)

\* a key of the control tree whose value and base value are both sections
\* is merged one level deep: the nested sections themselves are merged too
MergeKeyDeep(eff, key, control_value) ==
    IF IsDict(control_value) /\ IsDict(Get(eff, key, PyNone))
    THEN LET b == eff[key].v
             c == control_value.v
         IN Put(eff, key, PyDict(
              [x \in DOMAIN b \cup DOMAIN c |->
                 IF x \in DOMAIN c
                 THEN IF x \in DOMAIN b /\ IsDict(b[x]) /\ IsDict(c[x])
                      THEN PyDict(Update(b[x].v, c[x].v))
                      ELSE c[x]
                 ELSE b[x]]))
    ELSE Put(eff, key, control_value)

\* one iteration of the merge loop
MergeKey(eff, key, control_value) ==
    IF IsDict(control_value) /\ IsDict(Get(eff, key, PyNone))
    THEN Put(eff, key, PyDict(Update(Get(eff, key, PyDict(EmptyDict)).v, control_value.v)))
    ELSE Put(eff, key, control_value)

RECURSIVE MergeLoop(_, _, _)
\* for key, control_value in control_cfg_data.items(): ...
MergeLoop(eff, control, keys) ==
    IF keys = {} THEN eff
    ELSE LET key == CHOOSE k \in keys : TRUE
         IN MergeLoop(MergeKey(eff, key, control[key]), control, keys \ {key})

MergeConfig(base, control) == MergeLoop(base, control, DOMAIN control)

----------------------------------------------------------------------------
(* pathlib (POSIX flavour): Path(a) / b and str() of the result *)

RECURSIVE StartsWith(_, _)
StartsWith(s, p) ==
    IF p = << >> THEN TRUE
    ELSE IF s = << >> THEN FALSE
    ELSE Head(s) = Head(p) /\ StartsWith(Tail(s), Tail(p))

\* posixpath.join(a, b)
PosixJoin(a, b) ==
    IF StartsWith(b, <<"/">>) THEN b
    ELSE IF a = << >> \/ a[Len(a)] = "/" THEN a \o b
    ELSE a \o <<"/">> \o b

\* posixpath.splitroot: two leading slashes are kept, one or three and more are one
PathRoot(s) ==
    IF StartsWith(s, <<"/", "/">>) /\ ~StartsWith(s, <<"/", "/", "/">>) THEN <<"/", "/">>
    ELSE IF StartsWith(s, <<"/">>) THEN <<"/">>
    ELSE << >>

RECURSIVE SplitSep(_, _)
\* s.split("/"): the components, with cur the component being read
SplitSep(s, cur) ==
    IF s = << >> THEN <<cur>>
    ELSE IF Head(s) = "/" THEN <<cur>> \o SplitSep(Tail(s), << >>)
    ELSE SplitSep(Tail(s), Append(cur, Head(s)))

\* [x for x in rel.split(sep) if x and x != '.']
PathParts(s) == SelectSeq(SplitSep(s, << >>), LAMBDA c : c # << >> /\ c # <<".">>)

RECURSIVE JoinSep(_)
\* "/".join(parts)
JoinSep(parts) ==
    IF parts = << >> THEN << >>
    ELSE IF Len(parts) = 1 THEN parts[1]
    ELSE parts[1] \o <<"/">> \o JoinSep(Tail(parts))

\* str(Path(s))
PathStr(s) ==
    LET r == PathRoot(s) \o JoinSep(PathParts(s))
    IN IF r = << >> THEN <<".">> ELSE r

\* str(Path(a) / b)
PathJoin(a, b) == PathStr(PosixJoin(a, b))

\* Path(p).name: the last component
PathName(s) ==
    LET parts == PathParts(s)
    IN IF parts = << >> THEN << >> ELSE parts[Len(parts)]

\* the working directory of the run
CwdPath == <<"/", "cwd">>

\* str(Path(p).resolve()) of a path with no symbolic links and no ".." component
PathResolve(p) == IF StartsWith(p, <<"/">>) THEN PathStr(p) ELSE PathJoin(CwdPath, p)

----------------------------------------------------------------------------
(* config_handler.load_effective_config *)

\* a load that reports the error and carries on with stock settings
LoadFatalContinues(eff, msgs) ==
    [ok |-> TRUE, effective |-> eff,
     settings |-> [run_description |-> PyStr(<<"Chunked Rclone Run">>),
                   remote_name |-> PyStr(<<"r">>),
                   source_rclone_path_on_remote |-> PyStr(<<"s">>),
                   dest_parent_rclone_path_on_remote |-> PyStr(<<"p">>),
                   backup_folder_name |-> PyStr(<<"b">>),
                   rclone_flags |-> PyList(<< >>),
                   run_duration_seconds |-> PyInt(2),
                   log_dir |-> PyStr(<<"rclone_chunk_logs_py">>),
                   log_file_basename |-> PyStr(<<"rclone_copy_chunk">>),
                   upload_logs_to_remote |-> PyBool(FALSE),
                   remote_log_upload_path |-> PyNone],
     msgs |-> msgs]

\* the result of a load that ended the process (sys.exit(1), or a traceback)
LoadFatal(eff, msgs) ==
    [ok |-> FALSE, effective |-> eff, settings |-> EmptyDict, msgs |-> msgs]

\* a marker for "this key is not in the file" used to build the input trees
Absent == [t |-> "absent", v |-> 0]

\* a selection that falls back on the default control file when the named one
\* is not found
ControlFileToLoadFallback(control_file_arg, f) ==
    IF Truthy(control_file_arg) /\ f.named_is_file THEN "named"
    ELSE IF Truthy(control_file_arg) /\ ~f.named_is_absolute /\ f.named_in_cwd_is_file
    THEN "named"
    ELSE IF f.default_is_file THEN "default"
    ELSE "none"

\* step 2: which control file is loaded: "named", "default", "none", or "fatal"
\* when the file named on the command line is not found
ControlFileToLoad(control_file_arg, f) ==
    IF Truthy(control_file_arg)
    THEN IF f.named_is_file THEN "named"
         ELSE IF ~f.named_is_absolute /\ f.named_in_cwd_is_file THEN "named"
         ELSE "fatal"
    ELSE IF f.default_is_file THEN "default"
    ELSE "none"

\* the run_duration_seconds check: not isinstance(x, int) or x <= 0
DurationRejected(x) == ~IsInstanceInt(x) \/ IntValue(x) <= 0

\* the [rclone_paths] checks with destination_parent_path tested for truth
PathsRejectedTruthy(s) ==
    \/ ~Truthy(s["remote_name"])
    \/ ~Truthy(s["source_rclone_path_on_remote"])
    \/ ~Truthy(s["dest_parent_rclone_path_on_remote"])
    \/ ~Truthy(s["backup_folder_name"])

\* the [rclone_paths] checks: remote_name, then all([source, dest is not None, backup])
PathsRejected(s) ==
    \/ ~Truthy(s["remote_name"])
    \/ ~Truthy(s["source_rclone_path_on_remote"])
    \/ s["dest_parent_rclone_path_on_remote"] = PyNone
    \/ ~Truthy(s["backup_folder_name"])

\* steps 4 and 5: extract and validate the final settings
Validate(eff, msgs) ==
    LET paths == Get(eff, "rclone_paths", PyDict(EmptyDict))
        opts == Get(eff, "rclone_options", PyDict(EmptyDict))
        chunking == Get(eff, "chunking", PyDict(EmptyDict))
        logging == Get(eff, "logging", PyDict(EmptyDict))
    IN  IF ~IsDict(paths) THEN LoadFatal(eff, msgs \cup {"TRACEBACK: AttributeError"})
        ELSE LET s1 == [run_description |-> Get(eff, "run_description", PyStr(<<"Chunked Rclone Run">>)),
                        remote_name |-> Get(paths.v, "remote_name", PyNone),
                        source_rclone_path_on_remote |-> Get(paths.v, "source_path", PyNone),
                        dest_parent_rclone_path_on_remote |-> Get(paths.v, "destination_parent_path", PyNone),
                        backup_folder_name |-> Get(paths.v, "backup_folder_name", PyNone)]
             IN
        IF ~Truthy(s1["remote_name"]) THEN LoadFatal(eff, msgs \cup {"ERROR: remote_name must be defined"})
        ELSE IF PathsRejected(s1) THEN LoadFatal(eff, msgs \cup {"ERROR: rclone path information must be defined"})
        ELSE IF ~IsDict(opts) \/ ~IsDict(chunking) THEN LoadFatal(eff, msgs \cup {"TRACEBACK: AttributeError"})
        ELSE IF DurationRejected(Get(chunking.v, "run_duration_seconds", PyNone))
             THEN LoadFatal(eff, msgs \cup {"ERROR: invalid or missing run_duration_seconds"})
        ELSE IF ~IsDict(logging) THEN LoadFatal(eff, msgs \cup {"TRACEBACK: AttributeError"})
        ELSE [ok |-> TRUE,
              effective |-> eff,
              settings |-> Update(s1,
                 [rclone_flags |-> Get(opts.v, "flags", PyList(<< >>)),
                  run_duration_seconds |-> Get(chunking.v, "run_duration_seconds", PyNone),
                  log_dir |-> Get(logging.v, "log_dir", PyStr(<<"rclone_chunk_logs_py">>)),
                  log_file_basename |-> Get(logging.v, "log_file_basename", PyStr(<<"rclone_copy_chunk">>)),
                  upload_logs_to_remote |-> Get(logging.v, "upload_logs_to_remote", PyBool(FALSE)),
                  remote_log_upload_path |-> Get(logging.v, "remote_log_upload_path", PyNone)]),
              msgs |-> msgs \cup {"INFO: effective configuration loaded and validated"}]

\* step 3: load the control file that was identified and merge it
LoadControl(eff, which, f, msgs) ==
    LET file == IF which = "named" THEN f.named_file ELSE f.default_file
        m == msgs \cup {IF which = "named" THEN "INFO: custom control file specified"
                        ELSE "INFO: using default control file"}
    IN  IF file.status = "unparsable"
        THEN LoadFatal(eff, m \cup {"ERROR: could not parse control file"})
        ELSE IF file.status = "unreadable"
        THEN LoadFatal(eff, m \cup {"ERROR: unexpected error loading control file"})
        ELSE Validate(MergeConfig(eff, file.tree),
                      m \cup {"INFO: loaded control settings", "INFO: control settings merged"})

\* load_effective_config(control_file_arg) in the files f
LoadEffectiveConfigResult(control_file_arg, f) ==
    IF f.base_file.status = "missing"
    THEN LoadFatal(EmptyDict, {"ERROR: base configuration file not found"})
    ELSE IF f.base_file.status = "unparsable"
    THEN LoadFatal(EmptyDict, {"ERROR: could not parse base config"})
    ELSE IF f.base_file.status = "unreadable"
    THEN LoadFatal(EmptyDict, {"ERROR: unexpected error loading base config"})
    ELSE LET which == ControlFileToLoad(control_file_arg, f)
             m == {"INFO: loaded base configuration"}
         IN  IF which = "fatal"
             THEN LoadFatal(f.base_file.tree, m \cup {"ERROR: specified control file not found"})
             ELSE IF which = "none"
             THEN Validate(f.base_file.tree, m \cup {"INFO: proceeding with base settings only"})
             ELSE LoadControl(f.base_file.tree, which, f, m)

----------------------------------------------------------------------------
(* The inputs of a run: the command line and the files *)

\* a file's keys: those of f that are not marked Absent
Strip(f) == [k \in {x \in DOMAIN f : f[x] # Absent} |-> f[k]]

PathsSec(rn, sp, dpp, bf) ==
    PyDict(Strip([remote_name |-> rn, source_path |-> sp,
                  destination_parent_path |-> dpp, backup_folder_name |-> bf]))

GoodPathsSec(dpp) == PathsSec(PyStr(<<"r">>), PyStr(<<"s">>), PyStr(dpp), PyStr(<<"b">>))

ChunkSec(d) == PyDict(Strip([run_duration_seconds |-> d]))

GoodChunk == ChunkSec(PyInt(2))

OptsSec(flags) == PyDict(Strip([flags |-> flags]))

LogSec(upload, path) ==
    PyDict(Strip([upload_logs_to_remote |-> upload, remote_log_upload_path |-> path]))

Tree(rp, ro, ch, lg) ==
    Strip([rclone_paths |-> rp, rclone_options |-> ro, chunking |-> ch, logging |-> lg])

\* values of run_duration_seconds a TOML file can hold
DurationValues ==
    {Absent, PyInt(0), PyInt(-1), PyInt(2), PyFloat(3), PyFloat(120),
     PyStr(<<"60">>), PyBool(TRUE), PyBool(FALSE)}

FlagLists ==
    {Absent, PyList(<< >>), PyList(<< <<"-v">> >>), PyList(<< <<"-v">>, <<"--stats=5s">> >>)}

\* base files that differ in [rclone_paths]
PathsFamily ==
    {Tree(PathsSec(rn, sp, dpp, bf), Absent, GoodChunk, Absent) :
        rn \in {Absent, PyStr(<< >>), PyStr(<<"r">>)},
        sp \in {Absent, PyStr(<< >>), PyStr(<<"s">>)},
        dpp \in {Absent, PyStr(<< >>), PyStr(<<"p">>)},
        bf \in {Absent, PyStr(<< >>), PyStr(<<"b">>)}}
    \cup {Tree(Absent, Absent, GoodChunk, Absent),
          Tree(PyStr(<<"x">>), Absent, GoodChunk, Absent)}

\* base files that differ in [chunking]
DurationFamily ==
    {Tree(GoodPathsSec(<<"p">>), Absent, ChunkSec(d), Absent) : d \in DurationValues}
    \cup {Tree(GoodPathsSec(<<"p">>), Absent, Absent, Absent)}

\* base files that differ in [rclone_options] and [logging]
RunFamily ==
    {Tree(GoodPathsSec(dpp), OptsSec(fl), GoodChunk, Absent) :
        dpp \in {<< >>, <<"p">>}, fl \in FlagLists}
    \cup
    {Tree(GoodPathsSec(dpp), Absent, GoodChunk, LogSec(up, path)) :
        dpp \in {<< >>, <<"p">>},
        up \in {Absent, PyBool(FALSE), PyBool(TRUE)},
        path \in {Absent, PyStr(<< >>), PyStr(<<"logs">>)}}

BaseTrees == PathsFamily \cup DurationFamily \cup RunFamily

ControlTrees ==
    {EmptyDict,
     [chunking |-> ChunkSec(PyInt(3))],
     [chunking |-> ChunkSec(PyInt(0))],
     [rclone_paths |-> PathsSec(Absent, Absent, PyStr(<< >>), Absent)],
     [rclone_paths |-> PyStr(<<"x">>)],
     [logging |-> LogSec(PyBool(TRUE), Absent)],
     [run_description |-> PyStr(<<"nightly">>)]}

FileOk(tree) == [status |-> "ok", tree |-> tree]

FileBad(status) == [status |-> status, tree |-> EmptyDict]

NoFile == FileBad("absent")

ControlContents ==
    {FileBad("unparsable"), FileBad("unreadable")} \cup {FileOk(t) : t \in ControlTrees}

NamedArg == PyStr(<<"job.toml">>)

\* what the command line names and what the working directory holds of it
ControlLookups ==
    {[arg |-> PyNone, named_is_file |-> FALSE, named_is_absolute |-> FALSE,
      named_in_cwd_is_file |-> FALSE, named_file |-> NoFile,
      default_is_file |-> c # NoFile, default_file |-> c] :
        c \in ControlContents \cup {NoFile}}
    \cup
    {[arg |-> NamedArg, named_is_file |-> TRUE, named_is_absolute |-> FALSE,
      named_in_cwd_is_file |-> TRUE, named_file |-> c,
      default_is_file |-> FALSE, default_file |-> NoFile] :
        c \in ControlContents}
    \cup
    {[arg |-> NamedArg, named_is_file |-> FALSE, named_is_absolute |-> a,
      named_in_cwd_is_file |-> FALSE, named_file |-> NoFile,
      default_is_file |-> d # NoFile, default_file |-> d] :
        a \in BOOLEAN, d \in {NoFile, FileOk([chunking |-> ChunkSec(PyInt(3))])}}

BaseFiles ==
    {FileBad("missing"), FileBad("unparsable"), FileBad("unreadable")}
    \cup {FileOk(t) : t \in BaseTrees}

\* the exit code the operating system reports for sys.exit(n)
SysExit(n) == n % 256

\* the process has not ended
Running == 0 - 1

InitCommon ==
    /\ effective_config = EmptyDict
    /\ final_settings = EmptyDict
    /\ rclone_command = << >>
    /\ log_file_name = << >>
    /\ exit_code = 0
    /\ main_outcome = "none"
    /\ upload_outcome = "none"
    /\ launched = << >>
    /\ alive = {}
    /\ signalled = {}
    /\ full_source_rclone_path = << >>
    /\ full_destination_rclone_path = << >>
    /\ out = {}
    /\ run_status = 0
    /\ returned = FALSE
    /\ process_exit = Running

Init ==
    /\ pc = "start"
    /\ \E l \in ControlLookups, b \in BaseFiles, dry \in BOOLEAN :
         /\ argv_cli = [control_file_arg |-> l.arg, dry_run |-> dry]
         /\ fs = [base_file |-> b,
                  named_is_file |-> l.named_is_file,
                  named_is_absolute |-> l.named_is_absolute,
                  named_in_cwd_is_file |-> l.named_in_cwd_is_file,
                  named_file |-> l.named_file,
                  default_is_file |-> l.default_is_file,
                  default_file |-> l.default_file]
    /\ InitCommon

----------------------------------------------------------------------------
(* The entry point calls the loader *)

LoadEffectiveConfig ==
    /\ pc = "start"
    /\ LET r == LoadEffectiveConfigResult(argv_cli.control_file_arg, fs)
       IN  /\ out' = out \cup r.msgs
           /\ effective_config' = r.effective
           /\ final_settings' = r.settings
           /\ pc' = IF r.ok THEN "loaded" ELSE "exited"
           /\ process_exit' = IF r.ok THEN process_exit ELSE SysExit(1)
    /\ UNCHANGED <<argv_cli, fs, rclone_command, log_file_name, exit_code, main_outcome,
                   upload_outcome, launched, alive, signalled, full_source_rclone_path,
                   full_destination_rclone_path, run_status, returned>>

\* the entry point puts the command line's dry-run flag into the settings record
EntryInjectDryRun ==
    /\ pc = "loaded"
    /\ final_settings' = Put(final_settings, "is_dry_run", PyBool(argv_cli.dry_run))
    /\ pc' = "runner_start"
    /\ UNCHANGED <<argv_cli, fs, effective_config, rclone_command, log_file_name, exit_code,
                   main_outcome, upload_outcome, launched, alive, signalled,
                   full_source_rclone_path, full_destination_rclone_path, out, run_status,
                   returned, process_exit>>

----------------------------------------------------------------------------
(* rclone_exec.run_rclone_chunk *)

\* the code recorded when the duration bound elapses
TimeoutCode == 124

\* the code recorded on a keyboard interrupt
InterruptCode == 130

\* datetime.now().strftime("%Y%m%d_%H%M%S")
Timestamp == <<"20250101_000000">>

\* f"{remote_name}:{source_rclone_path_on_remote}"
FullSource(cfg) ==
    cfg["remote_name"].v \o <<":">> \o cfg["source_rclone_path_on_remote"].v

\* the destination with the parent and the folder name pasted together
FullDestinationPasted(cfg) ==
    cfg["remote_name"].v \o <<":">> \o cfg["dest_parent_rclone_path_on_remote"].v
        \o <<"/">> \o cfg["backup_folder_name"].v

\* f"{remote_name}:{str(Path(dest_parent_rclone_path_on_remote) / backup_folder_name)}"
FullDestination(cfg) ==
    cfg["remote_name"].v \o <<":">>
        \o PathJoin(cfg["dest_parent_rclone_path_on_remote"].v, cfg["backup_folder_name"].v)

\* f"{log_file_basename}_{timestamp}.log"
LogFileName(cfg) == cfg["log_file_basename"].v \o <<"_">> \o Timestamp \o <<".log">>

\* log_dir / f"{log_file_basename}_{timestamp}.log"
LogFilePath(cfg) == PathJoin(cfg["log_dir"].v, LogFileName(cfg))

\* the argument list of the main transfer
RcloneCommand(cfg) ==
    << <<"rclone">>, <<"copy">> >>
        \o cfg["rclone_flags"].v
        \o << <<"--log-file=">> \o PathResolve(LogFilePath(cfg)) >>
        \o << FullSource(cfg) >>
        \o << FullDestination(cfg) >>

\* f"{remote_name}:{str(Path(remote_log_upload_path_str) / log_file_path.name)}"
FullRemoteLogDest(cfg) ==
    cfg["remote_name"].v \o <<":">>
        \o PathJoin(cfg["remote_log_upload_path"].v, PathName(LogFilePath(cfg)))

\* the argument list of the log upload
UploadLogCmd(cfg) ==
    << <<"rclone">>, <<"copyto">>, PathResolve(LogFilePath(cfg)),
       FullRemoteLogDest(cfg), <<"--progress">> >>

\* every recorded code is passed on as it is
ExitStatusRaw(code) == code

\* the value returned for a recorded exit code
ExitStatus(code) == IF code \in {0, TimeoutCode, InterruptCode} THEN 0 ELSE code

\* a post-run message that only tells success from the rest
ClassificationTwoWay(code) ==
    IF code = 0 THEN "INFO: chunk completed successfully"
    ELSE "WARNING: rclone process exited with a code"

\* the post-run message for a recorded exit code
Classification(code) ==
    IF code = 0 THEN "INFO: chunk completed successfully"
    ELSE IF code = TimeoutCode THEN "INFO: chunk terminated due to timeout"
    ELSE IF code = InterruptCode THEN "INFO: chunk likely terminated by user"
    ELSE "WARNING: rclone process exited with a code"

\* the upload step is entered
UploadWanted(cfg) == Truthy(Get(cfg, "upload_logs_to_remote", PyBool(FALSE)))

\* the upload path is only tested for being set
UploadPossibleNotNone(cfg) ==
    Get(cfg, "remote_log_upload_path", PyNone) # PyNone /\ Truthy(cfg["remote_name"])

\* remote_log_upload_path_str and remote_name
UploadPossible(cfg) ==
    Truthy(Get(cfg, "remote_log_upload_path", PyNone)) /\ Truthy(cfg["remote_name"])

\* the exit codes a child process is seen to end with: the tool's own, and
\* (negative) the number of the signal that killed it
ChildReturnCodes == {0, 1, 7, 124, 130, 255, 0 - 9}

\* return from run_rclone_chunk with the recorded code
ReturnFromRunner(code) ==
    /\ run_status' = ExitStatus(code)
    /\ returned' = TRUE
    /\ pc' = "runner_returned"
    /\ UNCHANGED process_exit

\* Popen.kill(): SIGKILL is sent unless the child is already known to have ended
KillSent(child, sent) == IF sent THEN signalled \cup {<<child, "SIGKILL">>} ELSE signalled

\* from the post-run messages to the return, or to the launch of the log upload;
\* msgs are the messages printed before, left the children still running
PostRun(code, msgs, left) ==
    LET m == msgs \cup {Classification(code), "INFO: log file for this run"}
    IN  /\ exit_code' = code
        /\ IF UploadWanted(final_settings)
           THEN IF UploadPossible(final_settings)
                THEN \/ /\ launched' = Append(launched,
                                [kind |-> "upload", argv |-> UploadLogCmd(final_settings)])
                        /\ alive' = left \cup {"upload"}
                        /\ out' = m \cup {"INFO: attempting to upload log file"}
                        /\ pc' = "upload_wait"
                        /\ UNCHANGED <<upload_outcome, run_status, returned, process_exit>>
                     \/ /\ upload_outcome' = "not_found"
                        /\ out' = m \cup {"INFO: attempting to upload log file",
                                          "ERROR: rclone command not found for log upload"}
                        /\ alive' = left
                        /\ UNCHANGED launched
                        /\ ReturnFromRunner(code)
                     \/ /\ upload_outcome' = "launch_error"
                        /\ out' = m \cup {"INFO: attempting to upload log file",
                                          "WARNING: an error occurred during log upload"}
                        /\ alive' = left
                        /\ UNCHANGED launched
                        /\ ReturnFromRunner(code)
                ELSE /\ out' = m \cup {"WARNING: upload_logs_to_remote is true but path not specified"}
                     /\ alive' = left
                     /\ UNCHANGED <<launched, upload_outcome>>
                     /\ ReturnFromRunner(code)
           ELSE /\ out' = m
                /\ alive' = left
                /\ UNCHANGED <<launched, upload_outcome>>
                /\ ReturnFromRunner(code)

\* from the start of run_rclone_chunk to the launch of the main transfer
RunnerStart ==
    /\ pc = "runner_start"
    /\ full_source_rclone_path' = FullSource(final_settings)
    /\ full_destination_rclone_path' = FullDestination(final_settings)
    /\ UNCHANGED <<argv_cli, fs, effective_config, final_settings, signalled>>
    /\ \/ \* log_dir.mkdir fails
          /\ out' = out \cup {"ERROR: could not create local log directory"}
          /\ run_status' = 1
          /\ returned' = TRUE
          /\ pc' = "runner_returned"
          /\ UNCHANGED <<rclone_command, log_file_name, exit_code, main_outcome,
                         upload_outcome, launched, alive, process_exit>>
       \/ \* the tool is not found
          /\ rclone_command' = RcloneCommand(final_settings)
          /\ log_file_name' = PathName(LogFilePath(final_settings))
          /\ main_outcome' = "not_found"
          /\ out' = out \cup {"BANNER", "ERROR: rclone command not found"}
          /\ run_status' = 1
          /\ returned' = TRUE
          /\ pc' = "runner_returned"
          /\ UNCHANGED <<exit_code, upload_outcome, launched, alive, process_exit>>
       \/ \* the launch fails in another way
          /\ rclone_command' = RcloneCommand(final_settings)
          /\ log_file_name' = PathName(LogFilePath(final_settings))
          /\ main_outcome' = "launch_error"
          /\ PostRun(1, out \cup {"BANNER", "ERROR: unexpected error while running rclone"}, {})
       \/ \* the child is running
          /\ rclone_command' = RcloneCommand(final_settings)
          /\ log_file_name' = PathName(LogFilePath(final_settings))
          /\ launched' = Append(launched,
                 [kind |-> "main", argv |-> RcloneCommand(final_settings)])
          /\ alive' = {"main"}
          /\ out' = out \cup {"BANNER"}
          /\ pc' = "main_wait"
          /\ UNCHANGED <<exit_code, main_outcome, upload_outcome, run_status, returned,
                         process_exit>>

\* the main transfer ends by itself before the duration bound
MainExits ==
    /\ pc = "main_wait"
    /\ \E c \in ChildReturnCodes :
         /\ main_outcome' = "exited"
         /\ PostRun(c, out, {})
    /\ UNCHANGED <<argv_cli, fs, effective_config, final_settings, rclone_command,
                   log_file_name, signalled, full_source_rclone_path,
                   full_destination_rclone_path>>

\* the duration bound elapses: subprocess.run kills the child and waits for
\* its end before the exception reaches the handler
MainTimeout ==
    /\ pc = "main_wait"
    /\ main_outcome' = "timeout"
    /\ signalled' = KillSent("main", TRUE)
    /\ PostRun(TimeoutCode, out \cup {"INFO: rclone process timed out"}, {})
    /\ UNCHANGED <<argv_cli, fs, effective_config, final_settings, rclone_command,
                   log_file_name, full_source_rclone_path, full_destination_rclone_path>>

\* a keyboard interrupt arrives during the wait: subprocess.run waits up to a
\* quarter of a second for the child; a child that has not ended by then is
\* sent SIGKILL and the exception reaches the handler without a further wait
MainInterrupt ==
    /\ pc = "main_wait"
    /\ main_outcome' = "interrupt"
    /\ \E ended \in BOOLEAN :
         /\ signalled' = KillSent("main", ~ended)
         /\ PostRun(InterruptCode, out \cup {"INFO: keyboard interrupt received"},
                    IF ended THEN {} ELSE {"main"})
    /\ UNCHANGED <<argv_cli, fs, effective_config, final_settings, rclone_command,
                   log_file_name, full_source_rclone_path, full_destination_rclone_path>>

\* the upload's exit code is not looked at
UploadResultMessageUnchecked(c) == "INFO: log file uploaded successfully"

\* the message printed when the log upload has ended with exit code c
UploadResultMessage(c) ==
    IF c = 0 THEN "INFO: log file uploaded successfully"
    ELSE "WARNING: failed to upload log file"

\* the exit codes the log upload is seen to end with
UploadReturnCodes == {0, 1, 3, 0 - 9}

\* the exit status the shell reports for a process killed by SIGINT
KilledBySigint == 128 + 2

\* the log upload ends: by itself, by its time bound, with an error while its
\* output is read, or by a keyboard interrupt, which no handler catches
UploadEnds ==
    /\ pc = "upload_wait"
    /\ UNCHANGED <<argv_cli, fs, effective_config, final_settings, rclone_command,
                   log_file_name, exit_code, main_outcome, launched,
                   full_source_rclone_path, full_destination_rclone_path>>
    /\ \/ \E c \in UploadReturnCodes :
            /\ upload_outcome' = IF c = 0 THEN "uploaded" ELSE "failed"
            /\ out' = out \cup {UploadResultMessage(c)}
            /\ alive' = alive \ {"upload"}
            /\ UNCHANGED signalled
            /\ ReturnFromRunner(exit_code)
       \/ /\ upload_outcome' = "timeout"
          /\ out' = out \cup {"WARNING: timeout during log upload"}
          /\ alive' = alive \ {"upload"}
          /\ signalled' = KillSent("upload", TRUE)
          /\ ReturnFromRunner(exit_code)
       \/ /\ upload_outcome' = "error"
          /\ out' = out \cup {"WARNING: an error occurred during log upload"}
          /\ alive' = alive \ {"upload"}
          /\ \E ended \in BOOLEAN : signalled' = KillSent("upload", ~ended)
          /\ ReturnFromRunner(exit_code)
       \/ /\ upload_outcome' = "interrupt"
          /\ out' = out \cup {"TRACEBACK: KeyboardInterrupt"}
          /\ \E ended \in BOOLEAN :
               /\ signalled' = KillSent("upload", ~ended)
               /\ alive' = IF ended THEN alive \ {"upload"} ELSE alive
          /\ pc' = "exited"
          /\ process_exit' = KilledBySigint
          /\ UNCHANGED <<run_status, returned>>

\* a child that was sent SIGKILL and not waited for ends on its own time
KilledChildEnds ==
    /\ \E c \in alive :
         /\ <<c, "SIGKILL">> \in signalled
         /\ alive' = alive \ {c}
    /\ UNCHANGED <<pc, argv_cli, fs, effective_config, final_settings, rclone_command,
                   log_file_name, exit_code, main_outcome, upload_outcome, launched,
                   signalled, full_source_rclone_path, full_destination_rclone_path, out,
                   run_status, returned, process_exit>>

----------------------------------------------------------------------------
(* chunk_rclone.main: the guidance text and the exit *)

EntryExit ==
    /\ pc = "runner_returned"
    /\ out' = out \cup {IF run_status = 0 THEN "--- chunk processing cycle finished ---"
                        ELSE "--- rclone reported an error ---"}
    /\ process_exit' = SysExit(run_status)
    /\ pc' = "exited"
    /\ UNCHANGED <<argv_cli, fs, effective_config, final_settings, rclone_command,
                   log_file_name, exit_code, main_outcome, upload_outcome, launched, alive,
                   signalled, full_source_rclone_path, full_destination_rclone_path,
                   run_status, returned>>

Next ==
    \/ LoadEffectiveConfig
    \/ EntryInjectDryRun
    \/ RunnerStart
    \/ MainExits
    \/ MainTimeout
    \/ MainInterrupt
    \/ UploadEnds
    \/ KilledChildEnds
    \/ EntryExit

Spec == Init /\ [][Next]_vars

----------------------------------------------------------------------------
(* What the claims read off a state *)

NormalCodes == {0, 124, 130}

\* the main transfer's outcome has been recorded in exit_code
MainRecorded == main_outcome \in {"exited", "timeout", "interrupt", "launch_error"}

\* a section of the merged configuration, empty when it is missing or no section
EffectiveSection(name) ==
    IF name \in DOMAIN effective_config /\ IsDict(effective_config[name])
    THEN effective_config[name].v
    ELSE EmptyDict

\* a key of a section of the merged configuration, PyNone when it is not set
EffectiveField(section, key) == Get(EffectiveSection(section), key, PyNone)

IsNonEmptyString(x) == x.t = "str" /\ x.v # << >>

IsPositiveInteger(x) == x.t = "int" /\ x.v > 0

\* the loader has returned a settings record
LoaderReturned == pc \notin {"start", "exited"} \/ returned \/ launched # << >>

\* the loader ended the process
LoaderExited == pc = "exited" /\ ~LoaderReturned /\ upload_outcome = "none"

\* the loader got as far as validating the merged configuration
ValidationReached ==
    out \cap {"INFO: proceeding with base settings only", "INFO: control settings merged"} # {}

SetupErrors ==
    {"ERROR: base configuration file not found",
     "ERROR: could not parse base config",
     "ERROR: unexpected error loading base config",
     "ERROR: could not parse control file",
     "ERROR: unexpected error loading control file",
     "ERROR: specified control file not found",
     "ERROR: remote_name must be defined",
     "ERROR: rclone path information must be defined",
     "ERROR: invalid or missing run_duration_seconds",
     "TRACEBACK: AttributeError",
     "ERROR: could not create local log directory"}

----------------------------------------------------------------------------
(* The claims *)

\* C1: once run_rclone_chunk has returned with a recorded outcome of the main
\* transfer, the returned status is 0 exactly when the recorded code is 0, 124 or
\* 130; a child that exited with 0 yields 0; any other recorded code c is returned
\* as c, and the warning about the exit code has been printed.
C1_ExitStatusMapping ==
    (returned /\ MainRecorded) =>
        /\ (run_status = 0) <=> (exit_code \in NormalCodes)
        /\ (main_outcome = "exited" /\ exit_code = 0) => run_status = 0
        /\ (exit_code \notin NormalCodes) =>
              /\ run_status = exit_code
              /\ "WARNING: rclone process exited with a code" \in out

C1_Witness ==
    /\ returned
    /\ main_outcome = "exited"
    /\ exit_code = 7
    /\ run_status = 7
    /\ "WARNING: rclone process exited with a code" \in out

\* C2: when the loader or the entry point has ended the process, its exit code is the status run_rclone_chunk
\* returned, and it is 0 (normal cycle), 1 (local setup or validation error) or
\* else the positive code the tool itself ended with, unchanged.
C2_ExitCodeContract ==
    (pc = "exited" /\ (returned \/ LoaderExited)) =>
        /\ returned => process_exit = run_status
        /\ \/ process_exit = 0 /\ returned /\ MainRecorded /\ exit_code \in NormalCodes
           \/ process_exit = 1
           \/ /\ process_exit > 1
              /\ main_outcome = "exited"
              /\ process_exit = exit_code

\* C3: once a configuration or setup error has been reported, no child process
\* has been launched, and the process ends with exit code 1.
C3_SetupErrorsAbortBeforeTransfer ==
    (out \cap SetupErrors # {}) =>
        /\ launched = << >>
        /\ alive = {}
        /\ pc \in {"exited", "runner_returned"}
        /\ pc = "runner_returned" => run_status = 1
        /\ pc = "exited" => process_exit = 1

C3_Witness ==
    /\ pc = "exited"
    /\ "ERROR: could not create local log directory" \in out
    /\ process_exit = 1
    /\ launched = << >>

\* C4: a run_duration_seconds that is not a genuine positive integer in the
\* merged configuration ends the run with exit code 1 before any child process
\* is launched.
C4_DurationMustBePositiveInteger ==
    (pc # "start" /\ ~IsPositiveInteger(EffectiveField("chunking", "run_duration_seconds"))) =>
        /\ pc = "exited"
        /\ process_exit = 1
        /\ launched = << >>

\* C5: the loader returns a settings record only if remote_name, source_path and
\* backup_folder_name are non-empty and destination_parent_path is set in the
\* merged configuration; an unset destination_parent_path ends the run with exit
\* code 1, and an empty one is accepted when validation is reached with the
\* other required fields valid.
C5_RequiredPathFields ==
    /\ LoaderReturned =>
          /\ IsNonEmptyString(EffectiveField("rclone_paths", "remote_name"))
          /\ IsNonEmptyString(EffectiveField("rclone_paths", "source_path"))
          /\ IsNonEmptyString(EffectiveField("rclone_paths", "backup_folder_name"))
          /\ EffectiveField("rclone_paths", "destination_parent_path") # PyNone
    /\ (pc # "start" /\ EffectiveField("rclone_paths", "destination_parent_path") = PyNone) =>
          /\ LoaderExited
          /\ process_exit = 1
    /\ ( /\ ValidationReached
         /\ EffectiveField("rclone_paths", "destination_parent_path") = PyStr(<< >>)
         /\ IsNonEmptyString(EffectiveField("rclone_paths", "remote_name"))
         /\ IsNonEmptyString(EffectiveField("rclone_paths", "source_path"))
         /\ IsNonEmptyString(EffectiveField("rclone_paths", "backup_folder_name"))
         /\ IsPositiveInteger(EffectiveField("chunking", "run_duration_seconds")) ) =>
          /\ LoaderReturned
          /\ final_settings["dest_parent_rclone_path_on_remote"] = PyStr(<< >>)

C5_Witness ==
    /\ pc = "loaded"
    /\ EffectiveField("rclone_paths", "destination_parent_path") = PyStr(<< >>)
    /\ final_settings["dest_parent_rclone_path_on_remote"] = PyStr(<< >>)

\* the elements of a sequence
Range(seq) == {seq[i] : i \in DOMAIN seq}

\* the argument lists of the main transfers launched so far
MainArgvs == {launched[i].argv : i \in {j \in DOMAIN launched : launched[j].kind = "main"}}

\* how many log uploads have been launched so far
UploadLaunches == Cardinality({j \in DOMAIN launched : launched[j].kind = "upload"})

\* the status the recorded outcome of the main transfer stands for
StatusOfMain == IF exit_code \in NormalCodes THEN 0 ELSE exit_code

\* C8: with the dry-run flag on the command line, the argument list of the main
\* transfer holds --dry-run and the log file name ends in _DRYRUN.log; without
\* the flag neither --dry-run nor _DRYRUN appears.
C8_DryRunFlag ==
    \A argv \in MainArgvs :
        IF argv_cli.dry_run
        THEN /\ <<"--dry-run">> \in Range(argv)
             /\ Len(log_file_name) >= 2
             /\ SubSeq(log_file_name, Len(log_file_name) - 1, Len(log_file_name))
                   = <<"_DRYRUN", ".log">>
        ELSE /\ <<"--dry-run">> \notin Range(argv)
             /\ "_DRYRUN" \notin Range(log_file_name)

\* the settings ask for the log upload and give no path for it
UploadPathMissing ==
    /\ LoaderReturned
    /\ final_settings["upload_logs_to_remote"] = PyBool(TRUE)
    /\ final_settings["remote_log_upload_path"] \in {PyNone, PyStr(<< >>)}

\* C9: with upload_logs_to_remote true and remote_log_upload_path absent or
\* empty, no upload child is ever launched, and once run_rclone_chunk has
\* returned past the main transfer the warning has been printed and the returned
\* status is the one the main transfer stands for.
C9_UploadSkippedWithoutPath ==
    UploadPathMissing =>
        /\ UploadLaunches = 0
        /\ "upload" \notin alive
        /\ (returned /\ MainRecorded) =>
              /\ "WARNING: upload_logs_to_remote is true but path not specified" \in out
              /\ run_status = StatusOfMain

C9_Witness ==
    /\ UploadPathMissing
    /\ final_settings["remote_log_upload_path"] = PyNone
    /\ returned
    /\ main_outcome = "exited"
    /\ exit_code = 7
    /\ run_status = 7
    /\ "WARNING: upload_logs_to_remote is true but path not specified" \in out

\* C10: when the log upload has ended with a non-zero exit code or by its time
\* bound, a warning has been printed, exactly one upload was launched, and
\* run_rclone_chunk has returned the status the main transfer stands for.
C10_UploadFailureIgnored ==
    (upload_outcome \in {"failed", "timeout"}) =>
        /\ upload_outcome = "failed" => "WARNING: failed to upload log file" \in out
        /\ upload_outcome = "timeout" => "WARNING: timeout during log upload" \in out
        /\ UploadLaunches = 1
        /\ "upload" \notin alive
        /\ returned
        /\ run_status = StatusOfMain

C10_Witness ==
    /\ upload_outcome = "failed"
    /\ returned
    /\ main_outcome = "exited"
    /\ exit_code = 7
    /\ run_status = 7
    /\ "WARNING: failed to upload log file" \in out

\* the base file was read and the control file selection was made
ControlSelected == "INFO: loaded base configuration" \in out

\* the command line names a control file
ControlNamed == argv_cli.control_file_arg # PyNone

\* the named file is found neither as given nor in the working directory
NamedNotFound ==
    /\ ControlNamed
    /\ ~fs.named_is_file
    /\ ~(~fs.named_is_absolute /\ fs.named_in_cwd_is_file)

\* every top-level key of the tree c is in the effective configuration with
\* c's value, or, for a section over a section, with each of c's keys
OverlaidBy(c) ==
    \A k \in DOMAIN c :
        /\ k \in DOMAIN effective_config
        /\ \/ effective_config[k] = c[k]
           \/ /\ IsDict(c[k]) /\ IsDict(effective_config[k])
              /\ \A j \in DOMAIN c[k].v :
                   /\ j \in DOMAIN effective_config[k].v
                   /\ effective_config[k].v[j] = c[k].v[j]

\* C11: once the control file has been selected: a named control file that is
\* not found ends the process with exit code 1, with the error printed, no
\* child launched and the default control file neither announced nor merged
\* (the effective configuration is the base tree); with no file named and no
\* default control file, the informational note is printed, no control-file
\* error is, and the base tree alone is validated; with no file named and a
\* readable default control file, that file is announced and merged.
C11_ControlFileAsymmetry ==
    ControlSelected =>
        /\ NamedNotFound =>
              /\ "ERROR: specified control file not found" \in out
              /\ pc = "exited"
              /\ process_exit = 1
              /\ launched = << >>
              /\ "INFO: using default control file" \notin out
              /\ "INFO: control settings merged" \notin out
              /\ effective_config = fs.base_file.tree
        /\ (~ControlNamed /\ ~fs.default_is_file) =>
              /\ "INFO: proceeding with base settings only" \in out
              /\ out \cap {"ERROR: specified control file not found",
                           "ERROR: could not parse control file",
                           "ERROR: unexpected error loading control file"} = {}
              /\ effective_config = fs.base_file.tree
              /\ (out \cap SetupErrors = {}) => LoaderReturned
        /\ (~ControlNamed /\ fs.default_is_file /\ fs.default_file.status = "ok") =>
              /\ "INFO: using default control file" \in out
              /\ "INFO: control settings merged" \in out
              /\ "INFO: proceeding with base settings only" \notin out
              /\ OverlaidBy(fs.default_file.tree)

\* a named control file is not found while a default control file that would
\* change the duration is present: the run has ended with 1 on the base tree
C11_Witness ==
    /\ NamedNotFound
    /\ fs.default_is_file
    /\ fs.default_file.status = "ok"
    /\ fs.default_file.tree # EmptyDict
    /\ fs.base_file.status = "ok"
    /\ pc = "exited"
    /\ process_exit = 1
    /\ "ERROR: specified control file not found" \in out
    /\ effective_config = fs.base_file.tree

\* how many main transfers have been launched so far
MainLaunches == Cardinality({j \in DOMAIN launched : launched[j].kind = "main"})

\* C12: at most one main transfer and at most one log upload are launched, the
\* main transfer first; the two children are never alive together, and once
\* the log upload has been launched the main transfer child has ended.
C12_AtMostTwoNeverConcurrent ==
    /\ MainLaunches <= 1
    /\ UploadLaunches <= 1
    /\ Len(launched) = 2 => (launched[1].kind = "main" /\ launched[2].kind = "upload")
    /\ ~({"main", "upload"} \subseteq alive)
    /\ UploadLaunches = 1 => "main" \notin alive

\* C13: when the duration bound has elapsed on the main transfer, the child
\* was killed and is no longer running, 124 is recorded, the timeout message
\* (and not the success message) has been printed, run_rclone_chunk returns 0
\* and the process it returns to exits with 0.
C13_TimeoutIsNormalEnd ==
    (main_outcome = "timeout") =>
        /\ <<"main", "SIGKILL">> \in signalled
        /\ "main" \notin alive
        /\ exit_code = 124
        /\ "INFO: chunk terminated due to timeout" \in out
        /\ "INFO: chunk completed successfully" \notin out
        /\ "WARNING: rclone process exited with a code" \notin out
        /\ returned => run_status = 0
        /\ (pc = "exited" /\ returned) => process_exit = 0

C13_Witness ==
    /\ main_outcome = "timeout"
    /\ exit_code = 124
    /\ "INFO: chunk terminated due to timeout" \in out
    /\ alive = {}
    /\ returned
    /\ pc = "exited"
    /\ process_exit = 0

\* C14: when a keyboard interrupt has arrived during the wait on the main
\* transfer, the program has sent the interrupt signal to the child, the child
\* has ended, 130 is recorded, the interrupted message has been printed and
\* run_rclone_chunk returns 0.
C14_InterruptPropagated ==
    (main_outcome = "interrupt") =>
        /\ <<"main", "SIGINT">> \in signalled
        /\ "main" \notin alive
        /\ exit_code = 130
        /\ "INFO: chunk likely terminated by user" \in out
        /\ returned => run_status = 0

ClassificationMessages ==
    {"INFO: chunk completed successfully",
     "INFO: chunk terminated due to timeout",
     "INFO: chunk likely terminated by user",
     "WARNING: rclone process exited with a code"}

\* C15: when the tool could not be found or could not be executed at the launch
\* of the main transfer, run_rclone_chunk has returned 1, no sentinel code is
\* recorded, no post-run message has been printed and no log upload has been
\* attempted or launched.
C15_ToolNotFoundReturnsAtOnce ==
    (main_outcome \in {"not_found", "launch_error"}) =>
        /\ returned
        /\ run_status = 1
        /\ exit_code \notin {124, 130}
        /\ out \cap ClassificationMessages = {}
        /\ "INFO: attempting to upload log file" \notin out
        /\ UploadLaunches = 0

\* C16: the argument list of the main transfer is rclone copy, then the
\* configured flags in order, then --dry-run when is_dry_run is set, then
\* --log-file= with an absolute path, then the source, then the destination.
C16_ArgumentOrder ==
    \A argv \in MainArgvs :
        LET flags == final_settings["rclone_flags"].v
            dry == IF final_settings["is_dry_run"].v THEN << <<"--dry-run">> >> ELSE << >>
            n == Len(argv)
        IN  /\ n = 2 + Len(flags) + Len(dry) + 3
            /\ argv[1] = <<"rclone">>
            /\ argv[2] = <<"copy">>
            /\ SubSeq(argv, 3, 2 + Len(flags)) = flags
            /\ SubSeq(argv, 3 + Len(flags), 2 + Len(flags) + Len(dry)) = dry
            /\ StartsWith(argv[n - 2], <<"--log-file=", "/">>)
            /\ argv[n - 1] = full_source_rclone_path
            /\ argv[n] = full_destination_rclone_path

\* C17: once the outcome of the main transfer is recorded, a process that has
\* ended did so after run_rclone_chunk returned, with the exit code of the
\* status the main transfer stands for.
C17_ExitFixedByMainTransfer ==
    (pc = "exited" /\ MainRecorded) =>
        /\ returned
        /\ run_status = StatusOfMain
        /\ process_exit = SysExit(StatusOfMain)

----------------------------------------------------------------------------
(* The merge on its own: base and control files over two sections, with scalar,
   section and nested-section values *)

\* the nested section a file of the given origin holds
NestedOf(tag) ==
    IF tag = "B" THEN PyDict([x |-> PyStr(<<"B">>), z |-> PyStr(<<"B">>)])
    ELSE PyDict([y |-> PyStr(<<"C">>), z |-> PyStr(<<"C">>)])

MergeSubKeys == {"source_path", "extra"}

MergeTopKeys == {"rclone_paths", "logging"}

MergeSections(tag) ==
    UNION {[K -> {PyStr(<<tag>>), NestedOf(tag)}] : K \in SUBSET MergeSubKeys}

MergeTopValues(tag) == {PyStr(<<tag>>)} \cup {PyDict(sec) : sec \in MergeSections(tag)}

MergeTrees(tag) == UNION {[K -> MergeTopValues(tag)] : K \in SUBSET MergeTopKeys}

InitMerge ==
    /\ pc = "start"
    /\ \E b \in MergeTrees("B"), c \in MergeTrees("C") :
         /\ argv_cli = [control_file_arg |-> PyNone, dry_run |-> FALSE]
         /\ fs = [base_file |-> FileOk(b),
                  named_is_file |-> FALSE,
                  named_is_absolute |-> FALSE,
                  named_in_cwd_is_file |-> FALSE,
                  named_file |-> NoFile,
                  default_is_file |-> TRUE,
                  default_file |-> FileOk(c)]
    /\ InitCommon

NextMerge == LoadEffectiveConfig

SpecMerge == InitMerge /\ [][NextMerge]_vars

\* the control file the loader merged
MergedControlTree == IF fs.named_is_file THEN fs.named_file.tree ELSE fs.default_file.tree

\* C6: after a control file has been merged, the effective configuration holds
\* exactly the top-level keys of both trees; a key that is a section in both
\* holds every control key with the control value (a nested section as it is
\* in the control file) and every other base key with the base value; any other
\* key of the control tree holds the control value; the rest hold the base value.
C6_OneLevelMerge ==
    ("INFO: control settings merged" \in out) =>
        LET b == fs.base_file.tree
            c == MergedControlTree
            e == effective_config
        IN  /\ DOMAIN e = DOMAIN b \cup DOMAIN c
            /\ \A k \in DOMAIN e :
                 IF k \in DOMAIN c
                 THEN IF k \in DOMAIN b /\ IsDict(b[k]) /\ IsDict(c[k])
                      THEN /\ IsDict(e[k])
                           /\ DOMAIN e[k].v = DOMAIN b[k].v \cup DOMAIN c[k].v
                           /\ \A j \in DOMAIN e[k].v :
                                e[k].v[j] = IF j \in DOMAIN c[k].v THEN c[k].v[j]
                                            ELSE b[k].v[j]
                      ELSE e[k] = c[k]
                 ELSE e[k] = b[k]

\* a section of both files with a nested section under the same key in both
\* and a base key the control file does not list
C6_Witness ==
    /\ "INFO: control settings merged" \in out
    /\ LET b == fs.base_file.tree
           c == MergedControlTree
       IN  /\ "rclone_paths" \in DOMAIN b \cap DOMAIN c
           /\ IsDict(b["rclone_paths"]) /\ IsDict(c["rclone_paths"])
           /\ DOMAIN b["rclone_paths"].v = {"source_path", "extra"}
           /\ DOMAIN c["rclone_paths"].v = {"extra"}
           /\ IsDict(b["rclone_paths"].v["extra"])
           /\ IsDict(c["rclone_paths"].v["extra"])
           /\ effective_config["rclone_paths"].v["extra"] = NestedOf("C")
           /\ effective_config["rclone_paths"].v["source_path"] = b["rclone_paths"].v["source_path"]

----------------------------------------------------------------------------
(* The path composition on its own: base files whose destination parent and
   backup folder name are every string of up to MaxPathLen tokens *)

PathAlphabet == {"a", "/", "."}

PathStrings == UNION {[1..n -> PathAlphabet] : n \in 0..MaxPathLen}

PathTrees ==
    {Tree(PathsSec(PyStr(<<"r">>), PyStr(<<"s">>), PyStr(dpp), PyStr(bf)),
          Absent, GoodChunk, lg) :
        dpp \in PathStrings, bf \in PathStrings \ {<< >>},
        lg \in {Absent, LogSec(PyBool(TRUE), PyStr(<<"logs">>))}}

InitPaths ==
    /\ pc = "start"
    /\ \E b \in PathTrees :
         /\ argv_cli = [control_file_arg |-> PyNone, dry_run |-> FALSE]
         /\ fs = [base_file |-> FileOk(b),
                  named_is_file |-> FALSE,
                  named_is_absolute |-> FALSE,
                  named_in_cwd_is_file |-> FALSE,
                  named_file |-> NoFile,
                  default_is_file |-> FALSE,
                  default_file |-> NoFile]
    /\ InitCommon

SpecPaths == InitPaths /\ [][Next]_vars

\* the source and destination locations have been composed
Composed == full_source_rclone_path # << >>

ParentPath == final_settings["dest_parent_rclone_path_on_remote"].v

FolderName == final_settings["backup_folder_name"].v

RemotePrefix == final_settings["remote_name"].v \o <<":">>

\* a relative path of names: no empty component (no leading, trailing or
\* doubled separator) and no "." component
IsPlainRelative(s) ==
    /\ s # << >>
    /\ \A i \in DOMAIN SplitSep(s, << >>) :
         SplitSep(s, << >>)[i] \notin {<< >>, <<".">>}

\* a plain relative path, or one with a single leading separator
IsPlainPath(s) ==
    \/ IsPlainRelative(s)
    \/ s # << >> /\ Head(s) = "/" /\ IsPlainRelative(Tail(s))

\* C7 as stated: the destination is remote_name:X when the parent is empty and
\* remote_name:P/X when the parent is P; the source is remote_name:source_path.
C7_DestinationAsStated ==
    Composed =>
        /\ full_source_rclone_path =
              RemotePrefix \o final_settings["source_rclone_path_on_remote"].v
        /\ ParentPath = << >> => full_destination_rclone_path = RemotePrefix \o FolderName
        /\ ParentPath # << >> =>
              full_destination_rclone_path = RemotePrefix \o ParentPath \o <<"/">> \o FolderName

\* C7 amended: for a backup folder name that is a plain relative path, the
\* destination is remote_name:X when the parent is empty and remote_name:P/X
\* when the parent P is a plain path; the source is always remote_name:source_path.
C7_DestinationOfPlainPaths ==
    Composed =>
        /\ full_source_rclone_path =
              RemotePrefix \o final_settings["source_rclone_path_on_remote"].v
        /\ (ParentPath = << >> /\ IsPlainRelative(FolderName)) =>
              full_destination_rclone_path = RemotePrefix \o FolderName
        /\ (IsPlainPath(ParentPath) /\ IsPlainRelative(FolderName)) =>
              full_destination_rclone_path = RemotePrefix \o ParentPath \o <<"/">> \o FolderName

C7_Witness ==
    /\ Composed
    /\ ParentPath = << >>
    /\ FolderName = <<"a">>
    /\ full_destination_rclone_path = <<"r", ":", "a">>

====
